---- MODULE Spec2Model ----
(***************************************************************************)
(* The settings dialog of the Daylight Factor plugin                       *)
(* (Revit_Plugin/Daylight-Factor/Settings.py) as a state machine: the      *)
(* settings file, the controls of one dialog instance, the handlers        *)
(* SettingsWindow.__init__ / _load_settings and save_button_click, and the *)
(* user's edits in between.                                                *)
(*                                                                         *)
(* Text (TextBox.Text, JSON strings) is a sequence of one-character        *)
(* strings, so that int() and str() are computed and not assumed.          *)
(* Real numbers (Level.Elevation, a stored level_elevation) are fixed      *)
(* point: the integer x stands for the number x / Scale.                   *)
(***************************************************************************)
EXTENDS Integers, Sequences, FiniteSets, TLC

VARIABLES
    file,       \* the settings file: [st, obj, extra]
    xaml,       \* whether the XAML layout file exists
    levels,     \* Level.Elevation of the document's levels, in collector order
    missing,    \* names of _initialize_controls that find_child_by_name did not find
    phase,      \* "idle" | "editing" | "closed" | "raised"
    form,       \* property values of the dialog's controls
    collected,  \* whether _populate_levels has set self.levels in this dialog
    last,       \* the operation that ran last
    outcome,    \* how that operation ended
    msgs,       \* MessageBox.Show calls of that operation, in order
    env,        \* what the environment did to the last submit that reached it
    steps,      \* the setup steps the dialog's constructor has run, in order
    vin,        \* _validate_inputs harness: ui_data['transmission_str']
    vout,       \* _validate_inputs harness: the call's result
    hin,        \* harness of the other functions: the input drawn
    hout        \* harness of the other functions: what was computed so far

vars == <<file, xaml, levels, missing, phase, form, collected, last, outcome,
          msgs, env, steps, vin, vout, hin, hout>>

dialogVars == <<file, xaml, levels, missing, phase, form, collected, last,
                outcome, msgs, env, steps>>

----------------------------------------------------------------------------
(* Bounds of the model *)

\* longest transmission text enumerated for _validate_inputs
MaxLen == 3

\* number of objects in a widget tree searched by find_child_by_name
MaxNodes == 3

\* the level elevations of the submit pipeline reach MaxTenths tenths of a
\* foot above and below zero
MaxTenths == 12

\* deepest directory, and longest relative script path, of the path harness
MaxDepth == 2

\* the decimal strings of -Margin .. 100 + Margin are enumerated as well
Margin == 5

(* Program constants *)

\* upper end of the accepted transmission range (Settings.py line 310)
MaxTransmission == 100

\* the default transmission value (Settings.py lines 214, 223)
DefaultTransmission == 70

----------------------------------------------------------------------------
(* Text *)

DigitChar == <<"0", "1", "2", "3", "4", "5", "6", "7", "8", "9">>

IsDigit(c) == \E i \in 1..10 : DigitChar[i] = c

DigitVal(c) == (CHOOSE i \in 1..10 : DigitChar[i] = c) - 1

RECURSIVE Digits(_)
Digits(n) ==
    IF n < 10 THEN <<DigitChar[n + 1]>>
    ELSE Digits(n \div 10) \o <<DigitChar[(n % 10) + 1]>>

\* Python str() of an int
Str(n) == IF n < 0 THEN <<"-">> \o Digits(-n) ELSE Digits(n)

RECURSIVE LStrip(_)
LStrip(s) == IF s # <<>> /\ Head(s) = " " THEN LStrip(Tail(s)) ELSE s

RECURSIVE RStrip(_)
RStrip(s) ==
    IF s # <<>> /\ s[Len(s)] = " " THEN RStrip(SubSeq(s, 1, Len(s) - 1)) ELSE s

RECURSIVE DigitsValue(_)
DigitsValue(s) ==
    IF s = <<>> THEN 0
    ELSE 10 * DigitsValue(SubSeq(s, 1, Len(s) - 1)) + DigitVal(s[Len(s)])

\* Python int() of a string: surrounding blanks are stripped, one sign is
\* allowed, at least one digit must follow and nothing else.  ok = FALSE
\* stands for the ValueError.
ParseInt(s) ==
    LET t    == RStrip(LStrip(s))
        neg  == t # <<>> /\ Head(t) = "-"
        sign == t # <<>> /\ Head(t) \in {"-", "+"}
        d    == IF sign THEN Tail(t) ELSE t
    IN  IF d # <<>> /\ \A i \in 1..Len(d) : IsDigit(d[i])
        THEN [ok |-> TRUE, v |-> IF neg THEN -DigitsValue(d) ELSE DigitsValue(d)]
        ELSE [ok |-> FALSE, v |-> 0]

RECURSIVE Strings(_, _)
Strings(A, n) ==
    IF n = 0 THEN {<<>>}
    ELSE LET S == Strings(A, n - 1)
         IN  S \cup {Append(s, c) : s \in {x \in S : Len(x) = n - 1}, c \in A}

----------------------------------------------------------------------------
(* Numbers *)

\* The integer x stands for the number x / Scale.  A foot is 304.8 mm, so
\* with Scale = 127000 a level at a whole number of millimetres has an exact
\* Elevation: 3000 mm is 1250/127 ft, the integer 1250000.
Scale == 127 * 1000

\* the 0.001 of _select_level_by_elevation
Tolerance == Scale \div 1000

Abs(x) == IF x < 0 THEN -x ELSE x

\* int(.) without round(.): the fraction is cut off
RoundedMm_Truncated(e) ==
    LET q == (3 * Abs(e)) \div 1250
    IN  IF e < 0 THEN -q ELSE q

\* RevitApiHelper.feet_to_mm followed by int(round(.)): e / Scale feet are
\* 304.8 * e / Scale = 3 * e / 1250 millimetres; round() takes the nearest
\* integer, a half away from zero.
RoundedMm(e) ==
    LET q == (2 * 3 * Abs(e) + 1250) \div (2 * 1250)
    IN  IF e < 0 THEN -q ELSE q

\* the Elevation of a level that lies at mm millimetres
FeetOfMm(mm) == (mm * 1250) \div 3

----------------------------------------------------------------------------
(* Python values and the JSON text of the settings file *)

Val(k, n, s, b) == [k |-> k, n |-> n, s |-> s, b |-> b]

PyAbsent  == Val("absent", 0, <<>>, FALSE)     \* the key is not in the dict
PyNone    == Val("None", 0, <<>>, FALSE)
PyInt(n)  == Val("int", n, <<>>, FALSE)
PyStr(s)  == Val("str", 0, s, FALSE)
PyBool(b) == Val("bool", 0, <<>>, b)

JAbsent    == Val("absent", 0, <<>>, FALSE)    \* the object has no such member
JNull      == Val("null", 0, <<>>, FALSE)
JNumber(n) == Val("number", n, <<>>, FALSE)
JString(s) == Val("string", 0, s, FALSE)
JTrue      == Val("true", 0, <<>>, FALSE)
JFalse     == Val("false", 0, <<>>, FALSE)

Keys == {"multilayer_wall", "transmission_value", "level_elevation",
         "execution_mode", "write_results"}

\* a JSON object by its five members
Obj(mw, tv, le, em, wr) ==
    [multilayer_wall |-> mw, transmission_value |-> tv, level_elevation |-> le,
     execution_mode |-> em, write_results |-> wr]

\* the object without members; also what a file that holds no object carries
NoObj == Obj(JAbsent, JAbsent, JAbsent, JAbsent, JAbsent)

\* json.load on one member of the object
JsonLoadValue(j) ==
    CASE j.k = "null"   -> PyNone
      [] j.k = "number" -> PyInt(j.n)
      [] j.k = "string" -> PyStr(j.s)
      [] j.k = "true"   -> PyBool(TRUE)
      [] j.k = "false"  -> PyBool(FALSE)
      [] OTHER          -> PyAbsent

\* a dump that writes numbers as their decimal text in quotes
JsonDumpValue_NumbersQuoted(p) ==
    CASE p.k = "None" -> JNull
      [] p.k = "int"  -> JString(Str(p.n))
      [] p.k = "str"  -> JString(p.s)
      [] p.k = "bool" -> IF p.b THEN JTrue ELSE JFalse
      [] OTHER        -> JAbsent

\* json.dump on one value of settings_data
JsonDumpValue(p) ==
    CASE p.k = "None" -> JNull
      [] p.k = "int"  -> JNumber(p.n)
      [] p.k = "str"  -> JString(p.s)
      [] p.k = "bool" -> IF p.b THEN JTrue ELSE JFalse
      [] OTHER        -> JAbsent

\* Python bool()
Bool(p) ==
    CASE p.k = "int"  -> p.n # 0
      [] p.k = "str"  -> p.s # <<>>
      [] p.k = "bool" -> p.b
      [] OTHER        -> FALSE

\* Python str()
PyStrOf(p) ==
    CASE p.k = "int"  -> Str(p.n)
      [] p.k = "str"  -> p.s
      [] p.k = "bool" -> IF p.b THEN <<"T", "r", "u", "e">>
                                ELSE <<"F", "a", "l", "s", "e">>
      [] OTHER        -> <<"N", "o", "n", "e">>

\* float() of a loaded value succeeds (the stored strings of the model hold
\* no fraction and no exponent, so a numeric string is an integer string)
Floatable(p) ==
    \/ p.k \in {"int", "bool"}
    \/ p.k = "str" /\ ParseInt(p.s).ok

\* float() of a loaded value, as a fixed-point number
FloatOf(p) ==
    Scale * (CASE p.k = "int"  -> p.n
               [] p.k = "bool" -> IF p.b THEN 1 ELSE 0
               [] OTHER        -> ParseInt(p.s).v)

\* dict.get(key, default)
Get(data, key, default) ==
    IF data[key].k = "absent" THEN default ELSE data[key]

LOCAL_MODE == <<"l", "o", "c", "a", "l">>
WEB_MODE   == <<"w", "e", "b">>

\* _apply_settings_to_ui: the index set on ComboBoxExecutionMode
ExecIndex(exec_mode) == IF exec_mode = PyStr(LOCAL_MODE) THEN 1 ELSE 0

\* every index but 0 is read as "local"
ExecMode_NotFirst(i) == IF i # 0 THEN LOCAL_MODE ELSE WEB_MODE

\* _collect_ui_data: the mode read off ComboBoxExecutionMode.SelectedIndex
ExecMode(i) == IF i = 1 THEN LOCAL_MODE ELSE WEB_MODE

\* a default record whose execution mode is "local"
DefaultSettings_LocalMode ==
    [multilayer_wall    |-> PyBool(FALSE),
     transmission_value |-> PyInt(DefaultTransmission),
     level_elevation    |-> PyNone,
     execution_mode     |-> PyStr(LOCAL_MODE),
     write_results      |-> PyBool(TRUE)]

\* SettingsWindow._get_default_settings
DefaultSettings ==
    [multilayer_wall    |-> PyBool(FALSE),
     transmission_value |-> PyInt(DefaultTransmission),
     level_elevation    |-> PyNone,
     execution_mode     |-> PyStr(WEB_MODE),
     write_results      |-> PyBool(TRUE)]

----------------------------------------------------------------------------
(* The dialog *)

\* the names bound by _initialize_controls
ControlNames ==
    {"SaveButton", "ComboBoxLevels", "RadioButtonTrue", "RadioButtonFalse",
     "TextBoxTransmission", "HelpButton", "ComboBoxExecutionMode",
     "RadioWriteYes", "RadioWriteNo"}

\* The controls as _load_xaml leaves them.  The layout file is not among
\* the sources; its controls are taken to declare the values of the default
\* record, so that nothing below rests on what the layout declares.  The
\* level selector has no items and no selection.
LayoutForm ==
    [rbTrue  |-> FALSE,                    \* RadioButtonTrue.IsChecked
     rbFalse |-> TRUE,                     \* RadioButtonFalse.IsChecked
     text    |-> Str(DefaultTransmission), \* TextBoxTransmission.Text
     execIdx |-> 0,                        \* ComboBoxExecutionMode.SelectedIndex
     wrYes   |-> TRUE,                     \* RadioWriteYes.IsChecked
     wrNo    |-> FALSE,                    \* RadioWriteNo.IsChecked
     items   |-> <<>>,                     \* ComboBoxLevels.ItemsSource
     selIdx  |-> -1]                       \* ComboBoxLevels.SelectedIndex

Msg(title, arg) == [title |-> title, arg |-> arg]

\* A run of statements over the controls: the form so far, and whether a
\* statement raised.
Ok(f) == [form |-> f, raised |-> FALSE]

Raise(r) == [r EXCEPT !.raised = TRUE]

\* One statement "self.<ctl>.<property> = value": AttributeError when the
\* control was not found (the attribute is None), else the form becomes g.
Assign(r, ctl, g) ==
    IF r.raised THEN r
    ELSE IF ctl \in missing THEN Raise(r)
    ELSE Ok(g)

\* Selector.SelectedIndex = i: WPF coerces an index past the last item away,
\* the selection stays what it was
WithSelectedIndex(f, i) ==
    IF i < Len(f.items) THEN [f EXCEPT !.selIdx = i] ELSE f

\* SettingsWindow._populate_levels
PopulateLevels(r, collectorOk) ==
    IF ~collectorOk THEN Raise(r)
    ELSE Assign(r, "ComboBoxLevels", [r.form EXCEPT !.items = levels])

\* SettingsWindow._load_settings_from_file: the dict json.load returns, or
\* the exception of codecs.open / json.load; text that is JSON but no object
\* loads, and raises at the first data.get
LoadSettingsFromFile ==
    [raised |-> file.st \in {"unreadable", "badjson"},
     isdict |-> file.st = "object",
     data   |-> [k \in Keys |-> JsonLoadValue(file.obj[k])]]

\* the first level of self.levels within the tolerance of the stored number,
\* 0 when there is none
FirstMatch(lv, x) ==
    IF \E i \in 1..Len(lv) : Abs(lv[i] - x) < Tolerance
    THEN CHOOSE i \in 1..Len(lv) :
            /\ Abs(lv[i] - x) < Tolerance
            /\ \A j \in 1..(i - 1) : ~(Abs(lv[j] - x) < Tolerance)
    ELSE 0

\* no fallback: the selection is left as it is
NoMatchSelection_Keep(f) == f

\* the fallback of _select_level_by_elevation: ComboBoxLevels.SelectedIndex = 0
NoMatchSelection(f) == WithSelectedIndex(f, 0)

\* SettingsWindow._select_level_by_elevation
SelectLevelByElevation(r, level_elevation) ==
    IF r.raised THEN r
    ELSE IF /\ level_elevation.k # "None"
            /\ r.form.items # <<>>
            /\ ~Floatable(level_elevation)
    THEN Raise(r)
    ELSE IF /\ level_elevation.k # "None"
            /\ r.form.items # <<>>
            /\ FirstMatch(r.form.items, FloatOf(level_elevation)) # 0
    THEN Assign(r, "ComboBoxLevels",
                [r.form EXCEPT !.selIdx =
                    FirstMatch(r.form.items, FloatOf(level_elevation)) - 1])
    ELSE Assign(r, "ComboBoxLevels", NoMatchSelection(r.form))

\* SettingsWindow._apply_settings_to_ui
ApplySettingsToUi(r, isdict, data) ==
    IF r.raised \/ ~isdict THEN Raise(r)
    ELSE
    LET is_multilayer    == Bool(Get(data, "multilayer_wall", PyBool(FALSE)))
        transmission_val == PyStrOf(Get(data, "transmission_value",
                                        PyInt(DefaultTransmission)))
        level_elevation  == Get(data, "level_elevation", PyNone)
        exec_mode        == Get(data, "execution_mode", PyStr(WEB_MODE))
        write_results    == Bool(Get(data, "write_results", PyBool(TRUE)))
        s1 == Assign(r,  "RadioButtonTrue",
                     [r.form EXCEPT !.rbTrue = is_multilayer])
        s2 == Assign(s1, "RadioButtonFalse",
                     [s1.form EXCEPT !.rbFalse = ~is_multilayer])
        s3 == Assign(s2, "TextBoxTransmission",
                     [s2.form EXCEPT !.text = transmission_val])
        s4 == Assign(s3, "ComboBoxExecutionMode",
                     [s3.form EXCEPT !.execIdx = ExecIndex(exec_mode)])
        s5 == Assign(s4, "RadioWriteYes",
                     [s4.form EXCEPT !.wrYes = write_results])
        s6 == Assign(s5, "RadioWriteNo",
                     [s5.form EXCEPT !.wrNo = ~write_results])
    IN  SelectLevelByElevation(s6, level_elevation)

\* SettingsWindow._apply_default_ui_values (hasattr(self, 'ComboBoxLevels')
\* holds once _initialize_controls has run, found or not)
ApplyDefaultUiValues(f) ==
    LET s1 == Assign(Ok(f), "RadioButtonFalse", [f EXCEPT !.rbFalse = TRUE])
        s2 == Assign(s1, "RadioButtonTrue", [s1.form EXCEPT !.rbTrue = FALSE])
        s3 == Assign(s2, "TextBoxTransmission",
                     [s2.form EXCEPT !.text = Str(DefaultTransmission)])
    IN  Assign(s3, "ComboBoxLevels", WithSelectedIndex(s3.form, 0))

\* the try block of SettingsWindow._load_settings
LoadBody(f, collectorOk) ==
    LET p == PopulateLevels(Ok(f), collectorOk)
    IN  IF p.raised THEN p
        ELSE IF file.st # "missing"
        THEN LET l == LoadSettingsFromFile
             IN  IF l.raised THEN Raise(p)
                 ELSE ApplySettingsToUi(p, l.isdict, l.data)
        ELSE ApplySettingsToUi(p, TRUE, DefaultSettings)

\* SettingsWindow._load_settings: the form it leaves, its message boxes and
\* whether it raised to __init__
LoadSettings(f, collectorOk) ==
    LET b == LoadBody(f, collectorOk)
        h == ApplyDefaultUiValues(b.form)
    IN  IF ~b.raised
        THEN [form |-> b.form, msgs |-> <<>>, raised |-> FALSE,
              outcome |-> "loaded"]
        ELSE [form |-> h.form, msgs |-> <<Msg("Load Error", <<>>)>>,
              raised |-> h.raised,
              outcome |-> IF h.raised THEN "raised" ELSE "load_error"]

----------------------------------------------------------------------------
(* Submit *)

\* None is returned without telling the user
MissingLevelMsgs_Silent == <<>>

\* the message box of _collect_ui_data
MissingLevelMsgs == <<Msg("Missing Level", <<>>)>>

\* SettingsWindow._collect_ui_data: the dict, None after the 'Missing Level'
\* message, or the AttributeError of a control that was not found
CollectUiData(f) ==
    IF "ComboBoxLevels" \in missing
    THEN [raised |-> TRUE, none |-> FALSE, msgs |-> <<>>, f |-> f]
    ELSE IF f.selIdx = -1
    THEN [raised |-> FALSE, none |-> TRUE,
          msgs |-> MissingLevelMsgs, f |-> f]
    ELSE [raised |-> {"RadioButtonTrue", "TextBoxTransmission",
                      "ComboBoxExecutionMode", "RadioWriteYes"}
                         \cap missing # {},
          none   |-> FALSE,
          msgs   |-> <<>>,
          f      |-> f]

\* the dict _collect_ui_data returns
UiData(f) ==
    [is_multilayer    |-> f.rbTrue,
     transmission_str |-> f.text,
     exec_mode        |-> ExecMode(f.execIdx),
     write_results    |-> f.wrYes,
     selected_level   |-> f.items[f.selIdx + 1]]

\* a range test without the upper end
InRange_NoUpper(v) == 0 <= v

\* a range test that excludes both ends
InRange_Exclusive(v) == 0 < v /\ v < MaxTransmission

\* the range test of _validate_inputs
InRange(v) == 0 <= v /\ v <= MaxTransmission

\* a message that quotes the text as int() read it, without its blanks
InvalidInputMsgs_Stripped(transmission_str) ==
    <<Msg("Invalid Input", RStrip(LStrip(transmission_str)))>>

\* the message box of _validate_inputs: it quotes ui_data['transmission_str']
InvalidInputMsgs(transmission_str) ==
    <<Msg("Invalid Input", transmission_str)>>

\* SettingsWindow._validate_inputs: the value returned, the
\* ui_data['transmission_value'] it sets and its message boxes
ValidateInputs(transmission_str) ==
    LET p == ParseInt(transmission_str)
    IN  IF p.ok /\ InRange(p.v)
        THEN [ok |-> TRUE, transmission_value |-> PyInt(p.v), msgs |-> <<>>]
        ELSE [ok |-> FALSE, transmission_value |-> PyAbsent,
              msgs |-> InvalidInputMsgs(transmission_str)]

\* SettingsWindow._prepare_settings_data
PrepareSettingsData(ui, transmission_value) ==
    [multilayer_wall    |-> PyBool(ui.is_multilayer),
     transmission_value |-> transmission_value,
     level_elevation    |-> PyInt(RoundedMm(ui.selected_level)),
     execution_mode     |-> PyStr(ui.exec_mode),
     write_results      |-> PyBool(ui.write_results)]

\* what the environment does to a submit that gets as far as converting the
\* elevation and writing the file: the unit conversion raises, or makedirs,
\* codecs.open or json.dump does.  The directory of the settings file can
\* only be missing when the file is.
IoOutcomes == {"ok", "convert_fail", "mkdir_fail", "open_fail", "write_fail"}

IoPossible(io) == io = "mkdir_fail" => file.st = "missing"

\* the text of the exception the environment raised
Reason(io) == <<io>>

\* a failure message that does not say why
SaveErrorMsg_NoReason(io) == Msg("Save Error", <<>>)

\* the message box of _save_settings_to_file's handler: it quotes the exception
SaveErrorMsg(io) == Msg("Save Error", Reason(io))

\* a write that updates the five members and keeps what else the file held
WrittenFile_Merged(settings_data) ==
    [st    |-> "object",
     obj   |-> [k \in Keys |-> JsonDumpValue(settings_data[k])],
     extra |-> file.extra]

\* the file after codecs.open(..., 'w') and json.dump(settings_data, ...)
WrittenFile(settings_data) ==
    [st    |-> "object",
     obj   |-> [k \in Keys |-> JsonDumpValue(settings_data[k])],
     extra |-> {}]

\* the file after codecs.open(..., 'w') and a dump that raised
TruncatedFile == [st |-> "badjson", obj |-> NoObj, extra |-> {}]

\* SettingsWindow._save_settings_to_file with _ensure_settings_directory:
\* the value returned, the file left behind and the message boxes.  A dump
\* that fails after codecs.open leaves a truncated file.
SaveSettingsToFile(settings_data, io) ==
    CASE io = "ok" ->
            [ok   |-> TRUE,
             file |-> WrittenFile(settings_data),
             msgs |-> <<>>]
      [] io = "mkdir_fail" ->
            [ok   |-> FALSE,
             file |-> file,
             msgs |-> <<Msg("Directory Error", Reason(io)), SaveErrorMsg(io)>>]
      [] io = "open_fail" ->
            [ok   |-> FALSE,
             file |-> file,
             msgs |-> <<SaveErrorMsg(io)>>]
      [] OTHER ->
            [ok   |-> FALSE,
             file |-> TruncatedFile,
             msgs |-> <<SaveErrorMsg(io)>>]

\* a rejected submit that closes the dialog all the same
Rejected_Closes(outcome_, msgs_) ==
    [outcome |-> outcome_, file |-> file, closed |-> TRUE, msgs |-> msgs_]

\* the early returns of save_button_click: nothing is written, Close() is
\* not reached
Rejected(outcome_, msgs_) ==
    [outcome |-> outcome_, file |-> file, closed |-> FALSE, msgs |-> msgs_]

\* a handler without the outer except clause: the exception leaves it
Caught_Propagates(reason) ==
    [outcome |-> "raised", file |-> file, closed |-> FALSE, msgs |-> <<>>]

\* the except clause of save_button_click: one message box that quotes the
\* exception; Close() is not reached
Caught(reason) ==
    [outcome |-> "exception", file |-> file, closed |-> FALSE,
     msgs |-> <<Msg("Save Error", reason)>>]

\* a handler that calls Close() whatever _save_settings_to_file returned
SaveFailed_Closes(w) ==
    [outcome |-> "save_failed", file |-> w.file, closed |-> TRUE,
     msgs |-> w.msgs]

\* save_button_click when _save_settings_to_file returned False: Close() is
\* skipped
SaveFailed(w) ==
    [outcome |-> "save_failed", file |-> w.file, closed |-> FALSE,
     msgs |-> w.msgs]

\* whether save_button_click gets as far as _prepare_settings_data
ReachesPrepare(f) ==
    LET c == CollectUiData(f)
    IN  ~c.raised /\ ~c.none /\ ValidateInputs(UiData(f).transmission_str).ok

\* a handler that validates the transmission text before it looks at the
\* level selection
SaveButtonClick_ValidateFirst(f, io) ==
    LET c  == CollectUiData(f)
        v  == ValidateInputs(f.text)
        w  == SaveSettingsToFile(
                  PrepareSettingsData(UiData(f), v.transmission_value), io)
    IN  IF c.raised
        THEN Caught(<<"AttributeError">>)
        ELSE IF ~v.ok
        THEN Rejected("invalid_input", v.msgs)
        ELSE IF c.none
        THEN Rejected("missing_level", c.msgs)
        ELSE IF io = "convert_fail"
        THEN Caught(Reason(io))
        ELSE IF w.ok
        THEN [outcome |-> "saved", file |-> w.file, closed |-> TRUE,
              msgs |-> w.msgs]
        ELSE SaveFailed(w)

\* SettingsWindow.save_button_click, the whole handler
SaveButtonClick(f, io) ==
    LET c  == CollectUiData(f)
        ui == UiData(f)
        v  == ValidateInputs(ui.transmission_str)
        w  == SaveSettingsToFile(PrepareSettingsData(ui, v.transmission_value), io)
    IN  IF c.raised
        THEN Caught(<<"AttributeError">>)
        ELSE IF c.none
        THEN Rejected("missing_level", c.msgs)
        ELSE IF ~v.ok
        THEN Rejected("invalid_input", v.msgs)
        ELSE IF io = "convert_fail"
        THEN Caught(Reason(io))
        ELSE IF w.ok
        THEN [outcome |-> "saved", file |-> w.file, closed |-> TRUE,
              msgs |-> w.msgs]
        ELSE SaveFailed(w)

----------------------------------------------------------------------------
(* The inputs of the model *)

\* what the settings file may hold before the first open
InitFiles ==
    {[st |-> t, obj |-> NoObj, extra |-> {}] :
        t \in {"missing", "unreadable", "badjson", "nonobject", "object"}}
    \cup
    {[st    |-> "object",
      obj   |-> Obj(JTrue, JNumber(85), JNumber(3000), JString(LOCAL_MODE),
                    JFalse),
      extra |-> {"version"}]}
    \cup
    {[st |-> "object", obj |-> o, extra |-> {}] : o \in
        {Obj(JTrue, JNumber(85), JNumber(3000), JString(LOCAL_MODE), JFalse),
         Obj(JFalse, JNumber(70), JNumber(3050), JString(WEB_MODE), JTrue),
         Obj(JTrue, JNumber(85), JString(<<"a", "b", "c">>),
             JString(LOCAL_MODE), JFalse),
         Obj(JAbsent, JNumber(150), JAbsent, JAbsent, JAbsent),
         Obj(JNull, JString(<<"a", "b", "c">>), JNull,
             JString(<<"b", "a", "t", "c", "h">>), JAbsent),
         Obj(JNumber(1), JAbsent, JNumber(0), JAbsent, JNull),
         Obj(JTrue, JAbsent, JNumber(3000), JAbsent, JFalse)}}

\* the levels of the document (Level.Elevation, fixed point, in feet):
\* none; levels at 0, 3000 and 6000 mm; levels at 3.2 ft and 0
LevelLists ==
    {<<>>,
     <<0, FeetOfMm(3000), FeetOfMm(6000)>>,
     <<(32 * Scale) \div 10, 0>>}

\* the layouts: every control found, or one of them not found
MissingSets == {{}} \cup {{c} : c \in ControlNames}

\* what the user types into the transmission box
TextInputs ==
    {<<"1", "0", "0">>, <<"1", "5", "0">>, <<"a", "b", "c">>,
     <<" ", "4", "2", " ">>}

\* the texts _validate_inputs is called with on its own
Alphabet == {"0", "1", "9", "-", "+", " ", ".", "a"}

ValidateTexts ==
    Strings(Alphabet, MaxLen)
    \cup {Str(t) : t \in (0 - Margin)..(MaxTransmission + Margin)}

\* the level elevations of the submit pipeline: the multiples of a tenth of
\* a foot (30.48 mm) up to MaxTenths on either side of zero; none of them
\* lies half-way between two whole millimetres
PipeElevations == {k * (Scale \div 10) : k \in (0 - MaxTenths)..MaxTenths}

\* the texts of the submit pipeline: the ends of the range and a text
\* with blanks
PipeTexts == {Str(0), Str(MaxTransmission), <<" ", "4", "2", " ">>}

\* the forms of the submit pipeline: one level, selected; every choice of
\* the radio buttons; ComboBoxExecutionMode without a selection, on one of
\* its two items, or past them
PipeForms ==
    {[rbTrue |-> mw, rbFalse |-> ~mw, text |-> t, execIdx |-> i,
      wrYes |-> wr, wrNo |-> ~wr, items |-> <<e>>, selIdx |-> 0] :
        mw \in BOOLEAN, t \in PipeTexts, i \in -1..2, wr \in BOOLEAN,
        e \in PipeElevations}

\* the harness of the other functions before anything is drawn or computed
NoArg == [kind |-> "none"]

NoRet == [stage |-> "none"]

\* a constructor that loads the settings before it binds the controls
ConstructorSteps_LoadFirst ==
    <<"_load_xaml", "_load_settings", "_initialize_controls",
      "_attach_event_handlers">>

\* the setup calls of SettingsWindow.__init__, in the order of the code
ConstructorSteps ==
    <<"_load_xaml", "_initialize_controls", "_attach_event_handlers",
      "_load_settings">>

NotCalled == [called |-> FALSE, ok |-> FALSE, transmission_value |-> PyAbsent,
              msgs |-> <<>>]

----------------------------------------------------------------------------
(* The state machine *)

Init ==
    /\ file \in InitFiles
    /\ xaml \in BOOLEAN
    /\ levels \in LevelLists
    /\ missing \in MissingSets
    /\ phase = "idle"
    /\ form = LayoutForm
    /\ collected = FALSE
    /\ last = "init"
    /\ outcome = "none"
    /\ msgs = <<>>
    /\ env = "none"
    /\ steps = <<>>
    /\ vin = <<>>
    /\ vout = NotCalled
    /\ hin = NoArg
    /\ hout = NoRet

\* SettingsApplication.run when _validate_xaml_file finds no layout file:
\* one message box, no window
RunWithoutLayout ==
    /\ phase # "editing"
    /\ ~xaml
    /\ phase' = "idle"
    /\ form' = LayoutForm
    /\ collected' = FALSE
    /\ last' = "run"
    /\ outcome' = "no_xaml"
    /\ msgs' = <<Msg("UI File Error", <<"xaml_file_path">>)>>
    /\ env' = "none"
    /\ steps' = <<>>
    /\ UNCHANGED <<file, xaml, levels, missing, vin, vout, hin, hout>>

\* SettingsApplication.run when the layout file exists: SettingsWindow.__init__
\* builds a new dialog and ShowDialog() shows it, unless the constructor
\* raised; the level collector works or not
Open ==
    /\ phase # "editing"
    /\ xaml
    /\ \E collectorOk \in BOOLEAN :
         LET r == LoadSettings(LayoutForm, collectorOk)
         IN  /\ form' = r.form
             /\ collected' = collectorOk
             /\ msgs' = r.msgs
             /\ outcome' = r.outcome
             /\ phase' = IF r.raised THEN "raised" ELSE "editing"
    /\ last' = "open"
    /\ env' = "none"
    /\ steps' = ConstructorSteps
    /\ UNCHANGED <<file, xaml, levels, missing, vin, vout, hin, hout>>

Edited(f) ==
    /\ phase = "editing"
    /\ form' = f
    /\ last' = "edit"
    /\ outcome' = "none"
    /\ msgs' = <<>>
    /\ env' = "none"
    /\ UNCHANGED <<file, xaml, levels, missing, phase, collected, steps,
                   vin, vout, hin, hout>>

\* the user picks a level in ComboBoxLevels
EditLevel ==
    \E i \in 0..(Len(form.items) - 1) : Edited([form EXCEPT !.selIdx = i])

\* the user checks RadioButtonTrue or RadioButtonFalse
EditMultilayer ==
    /\ {"RadioButtonTrue", "RadioButtonFalse"} \cap missing = {}
    /\ \E b \in BOOLEAN : Edited([form EXCEPT !.rbTrue = b, !.rbFalse = ~b])

\* the user types into TextBoxTransmission
EditTransmission ==
    \E s \in TextInputs : Edited([form EXCEPT !.text = s])

\* the user picks an item of ComboBoxExecutionMode
EditExecutionMode ==
    /\ "ComboBoxExecutionMode" \notin missing
    /\ \E i \in {0, 1} : Edited([form EXCEPT !.execIdx = i])

\* the user checks RadioWriteYes or RadioWriteNo
EditWriteResults ==
    /\ {"RadioWriteYes", "RadioWriteNo"} \cap missing = {}
    /\ \E b \in BOOLEAN : Edited([form EXCEPT !.wrYes = b, !.wrNo = ~b])

\* a click on SaveButton; the handler is attached when the button was found
SaveClick ==
    /\ phase = "editing"
    /\ "SaveButton" \notin missing
    /\ \E io \in IoOutcomes :
         /\ IoPossible(io)
         /\ LET r == SaveButtonClick(form, io)
            IN  /\ file' = r.file
                /\ msgs' = r.msgs
                /\ outcome' = r.outcome
                /\ phase' = IF r.outcome = "raised" THEN "raised"
                            ELSE IF r.closed THEN "closed" ELSE "editing"
                /\ env' = IF ReachesPrepare(form) THEN io ELSE "none"
    /\ last' = "save"
    /\ UNCHANGED <<xaml, levels, missing, form, collected, steps,
                   vin, vout, hin, hout>>

\* the user closes the dialog without saving; the window object is dropped
CloseWindow ==
    /\ phase = "editing"
    /\ phase' = "closed"
    /\ form' = LayoutForm
    /\ collected' = FALSE
    /\ last' = "close"
    /\ outcome' = "none"
    /\ msgs' = <<>>
    /\ env' = "none"
    /\ steps' = <<>>
    /\ UNCHANGED <<file, xaml, levels, missing, vin, vout, hin, hout>>

Next ==
    \/ RunWithoutLayout
    \/ Open
    \/ EditLevel
    \/ EditMultilayer
    \/ EditTransmission
    \/ EditExecutionMode
    \/ EditWriteResults
    \/ SaveClick
    \/ CloseWindow

Spec == Init /\ [][Next]_vars

(* _validate_inputs on its own, on every text of ValidateTexts *)

ValidateInit ==
    /\ file = [st |-> "missing", obj |-> NoObj, extra |-> {}]
    /\ xaml = TRUE
    /\ levels = <<>>
    /\ missing = {}
    /\ phase = "idle"
    /\ form = LayoutForm
    /\ collected = FALSE
    /\ last = "init"
    /\ outcome = "none"
    /\ msgs = <<>>
    /\ env = "none"
    /\ steps = <<>>
    /\ hin = NoArg
    /\ hout = NoRet
    /\ vin \in ValidateTexts
    /\ vout = NotCalled

ValidateCall ==
    /\ ~vout.called
    /\ LET r == ValidateInputs(vin)
       IN  vout' = [called |-> TRUE, ok |-> r.ok,
                    transmission_value |-> r.transmission_value,
                    msgs |-> r.msgs]
    /\ UNCHANGED <<dialogVars, vin, hin, hout>>

ValidateNext == ValidateCall

ValidateSpec == ValidateInit /\ [][ValidateNext]_vars

(* The submit pipeline on its own: a form is collected, prepared and       *)
(* written, and the file is read back, applied to a new dialog and         *)
(* collected again; or a file that was there is read, applied and          *)
(* collected.                                                              *)

Nothing == [none |-> TRUE]

PipeStart ==
    [stage |-> "start", ui |-> Nothing, settings |-> Nothing,
     data |-> Nothing, reopened |-> Nothing, ui2 |-> Nothing]

pipeFrame == <<xaml, levels, missing, phase, form, collected, last, outcome,
               msgs, env, steps, vin, vout, hin>>

PipeInit ==
    /\ xaml = TRUE
    /\ missing = {}
    /\ phase = "idle"
    /\ form = LayoutForm
    /\ collected = FALSE
    /\ last = "init"
    /\ outcome = "none"
    /\ msgs = <<>>
    /\ env = "none"
    /\ steps = <<>>
    /\ vin = <<>>
    /\ vout = NotCalled
    /\ \/ /\ hin \in {[kind |-> "form", form |-> f] : f \in PipeForms}
          /\ file = [st |-> "missing", obj |-> NoObj, extra |-> {}]
       \/ /\ hin = [kind |-> "file",
                    form |-> [LayoutForm EXCEPT !.items = <<0>>, !.selIdx = 0]]
          /\ file \in {x \in InitFiles : x.st = "object"}
    /\ levels = hin.form.items
    /\ hout = PipeStart

\* _collect_ui_data on the form drawn
PipeCollect ==
    /\ hout.stage = "start"
    /\ hin.kind = "form"
    /\ ~CollectUiData(hin.form).raised
    /\ ~CollectUiData(hin.form).none
    /\ hout' = [hout EXCEPT !.stage = "collected", !.ui = UiData(hin.form)]
    /\ UNCHANGED <<file, pipeFrame>>

\* _validate_inputs and _prepare_settings_data on the dict collected
PipePrepare ==
    /\ hout.stage = "collected"
    /\ LET v == ValidateInputs(hout.ui.transmission_str)
       IN  /\ v.ok
           /\ hout' = [hout EXCEPT
                          !.stage = "prepared",
                          !.settings =
                              PrepareSettingsData(hout.ui, v.transmission_value)]
    /\ UNCHANGED <<file, pipeFrame>>

\* _save_settings_to_file on the record prepared, the write succeeding
PipeSave ==
    /\ hout.stage = "prepared"
    /\ file' = SaveSettingsToFile(hout.settings, "ok").file
    /\ hout' = [hout EXCEPT !.stage = "saved"]
    /\ UNCHANGED pipeFrame

\* _load_settings_from_file on the file written, or on the file that was there
PipeLoad ==
    /\ \/ hout.stage = "saved"
       \/ hout.stage = "start" /\ hin.kind = "file"
    /\ hout' = [hout EXCEPT !.stage = "loaded", !.data = LoadSettingsFromFile]
    /\ UNCHANGED <<file, pipeFrame>>

\* _load_settings of a new dialog over the same levels
PipeReopen ==
    /\ hout.stage = "loaded"
    /\ hout' = [hout EXCEPT !.stage = "reopened",
                            !.reopened = LoadSettings(LayoutForm, TRUE)]
    /\ UNCHANGED <<file, pipeFrame>>

\* _collect_ui_data on the new dialog
PipeRecollect ==
    /\ hout.stage = "reopened"
    /\ ~hout.reopened.raised
    /\ ~CollectUiData(hout.reopened.form).none
    /\ hout' = [hout EXCEPT !.stage = "recollected",
                            !.ui2 = UiData(hout.reopened.form)]
    /\ UNCHANGED <<file, pipeFrame>>

PipeNext ==
    \/ PipeCollect
    \/ PipePrepare
    \/ PipeSave
    \/ PipeLoad
    \/ PipeReopen
    \/ PipeRecollect

PipeSpec == PipeInit /\ [][PipeNext]_vars

(* WpfControlFinder.find_child_by_name on its own, on every widget tree:  *)
(* every shape, every way of hanging, every naming, the empty properties   *)
(* absent or None, the search started at any object                        *)

\* A widget tree: the objects are 1..MaxNodes; names[n] is the Name of n, or
\* NoName when n has no such attribute; content[n][p] is what the property p
\* of n holds: nothing (the attribute is absent, or is None), one object that
\* cannot be iterated, or a collection of objects.
Props == {"Children", "Content", "Child", "Items"}

TargetName == "SaveButton"

NoName == "(no Name)"

NodeNames == {TargetName, "Other", NoName}

\* how a child hangs on its parent, as in WPF: in the collection a Children
\* or Items holds, or as the one object a Content or Child holds
Attachments ==
    {[prop |-> p, single |-> FALSE] : p \in {"Children", "Items"}}
    \cup {[prop |-> p, single |-> TRUE] : p \in {"Content", "Child"}}

\* the property table of the tree in which i hangs on par[i] by via[i]; the
\* items of a collection are in the order of their numbers
ContentOf(par, via, void) ==
    [n \in 1..MaxNodes |->
        [p \in Props |->
            LET Hangs(i) == par[i] = n /\ via[i].prop = p
                kids == SelectSeq([i \in 1..(MaxNodes - 1) |-> i + 1], Hangs)
            IN  IF kids = <<>> THEN [kind |-> void, items |-> <<>>]
                ELSE IF via[kids[1]].single
                THEN [kind |-> "element", items |-> kids]
                ELSE [kind |-> "collection", items |-> kids]]]

\* the shapes of a tree: every object but the first hangs on an earlier one
TreeShapes ==
    {f \in [2..MaxNodes -> 1..MaxNodes] : \A i \in 2..MaxNodes : f[i] < i}

\* the ways of hanging the objects of a shape: an object held as the one
\* object of a property is the only one under that property
TreeAttachments(par) ==
    {g \in [2..MaxNodes -> Attachments] :
        \A i, j \in 2..MaxNodes :
            (i # j /\ par[i] = par[j] /\ g[i].prop = g[j].prop)
                => ~g[i].single}

\* one that leaves out the last property
SearchProperties_NoItems == <<"Children", "Content", "Child">>

\* search_properties of find_child_by_name
SearchProperties == <<"Children", "Content", "Child", "Items">>

RECURSIVE FindChildByName(_, _, _)
RECURSIVE SearchInProperties(_, _, _, _)
RECURSIVE SearchInItems(_, _, _, _)

\* the for loop of _search_in_container from the i-th item on
SearchInItems(t, items, name, i) ==
    IF i > Len(items) THEN 0
    ELSE LET result == FindChildByName(t, items[i], name)
         IN  IF result # 0 THEN result
             ELSE SearchInItems(t, items, name, i + 1)

\* WpfControlFinder._search_in_container: the items of a collection in
\* order; an object that cannot be iterated raises TypeError and is
\* searched itself
SearchInContainer(t, container, name) ==
    IF container.kind = "collection"
    THEN SearchInItems(t, container.items, name, 1)
    ELSE FindChildByName(t, container.items[1], name)

\* the for loop of find_child_by_name from the k-th property on
SearchInProperties(t, parent, name, k) ==
    IF k > Len(SearchProperties) THEN 0
    ELSE LET container == t.content[parent][SearchProperties[k]]
             result    == SearchInContainer(t, container, name)
         IN  IF /\ container.kind \notin {"absent", "None"}
                /\ ~(container.kind = "element" /\ container.items[1] = parent)
                /\ result # 0
             THEN result
             ELSE SearchInProperties(t, parent, name, k + 1)

\* WpfControlFinder.find_child_by_name; 0 stands for None
FindChildByName(t, parent, name) ==
    IF t.names[parent] # NoName /\ t.names[parent] = name
    THEN parent
    ELSE SearchInProperties(t, parent, name, 1)

finderFrame == <<file, xaml, levels, missing, phase, form, collected, last,
                 outcome, msgs, env, steps, vin, vout, hin>>

FinderInit ==
    /\ file = [st |-> "missing", obj |-> NoObj, extra |-> {}]
    /\ xaml = TRUE
    /\ levels = <<>>
    /\ missing = {}
    /\ phase = "idle"
    /\ form = LayoutForm
    /\ collected = FALSE
    /\ last = "init"
    /\ outcome = "none"
    /\ msgs = <<>>
    /\ env = "none"
    /\ steps = <<>>
    /\ vin = <<>>
    /\ vout = NotCalled
    /\ \E par \in TreeShapes :
         \E via \in TreeAttachments(par), nm \in [1..MaxNodes -> NodeNames],
            s \in 1..MaxNodes, void \in {"absent", "None"} :
              hin = [kind    |-> "tree",
                     names   |-> nm,
                     content |-> ContentOf(par, via, void),
                     start   |-> s]
    /\ hout = [stage |-> "start", result |-> 0]

\* find_child_by_name(start, 'SaveButton')
FinderCall ==
    /\ hout.stage = "start"
    /\ hout' = [stage  |-> "returned",
                result |-> FindChildByName(hin, hin.start, TargetName)]
    /\ UNCHANGED finderFrame

FinderNext == FinderCall

FinderSpec == FinderInit /\ [][FinderNext]_vars

(* DaylightSettings._get_settings_file_path on its own.  A path is the     *)
(* sequence of its components below the root; the root is <<>>.            *)

\* the dialog's variables while a function is run on its own
HarnessIdle ==
    /\ file = [st |-> "missing", obj |-> NoObj, extra |-> {}]
    /\ xaml = TRUE
    /\ levels = <<>>
    /\ missing = {}
    /\ phase = "idle"
    /\ form = LayoutForm
    /\ collected = FALSE
    /\ last = "init"
    /\ outcome = "none"
    /\ msgs = <<>>
    /\ env = "none"
    /\ steps = <<>>
    /\ vin = <<>>
    /\ vout = NotCalled

SETTINGS_FILENAME == "settings_daylight.json"

\* os.path.dirname of an absolute path; the root is its own directory
Dirname(p) == IF p = <<>> THEN <<>> ELSE SubSeq(p, 1, Len(p) - 1)

\* os.path.join of a directory and a file name
Join(d, name) == Append(d, name)

\* os.path.normpath of an absolute path: "." is dropped, ".." leaves the
\* directory, and the root has nothing above it
RECURSIVE Normpath(_, _)
Normpath(done, rest) ==
    IF rest = <<>> THEN done
    ELSE IF Head(rest) = "." THEN Normpath(done, Tail(rest))
    ELSE IF Head(rest) = ".." THEN Normpath(Dirname(done), Tail(rest))
    ELSE Normpath(Append(done, Head(rest)), Tail(rest))

\* os.path.abspath(__file__): a relative path is taken from the working
\* directory, and the result is normalised
Abspath(script, cwd) ==
    Normpath(<<>>, IF script.absolute THEN script.parts
                   ELSE cwd \o script.parts)

\* the settings file is looked for in the script's own directory
ParentDir_Same(script_dir) == script_dir

\* parent_dir = os.path.dirname(script_dir)
ParentDir(script_dir) == Dirname(script_dir)

\* DaylightSettings._get_settings_file_path; __file__ may be undefined
GetSettingsFilePath(script, cwd) ==
    IF script.defined
    THEN Join(ParentDir(Dirname(Abspath(script, cwd))), SETTINGS_FILENAME)
    ELSE Join(ParentDir(cwd), SETTINGS_FILENAME)

\* the working directories drawn
PathDirs == Strings({"a", "b"}, MaxDepth)

\* the values of __file__ drawn: undefined, or the script below directories
\* that may be "." or "..", absolute or relative
PathScripts ==
    {[defined |-> FALSE, absolute |-> FALSE, parts |-> <<>>]}
    \cup {[defined |-> TRUE, absolute |-> ab,
           parts |-> Append(d, "Settings.py")] :
             ab \in BOOLEAN, d \in Strings({"a", "b", ".", ".."}, MaxDepth)}

PathInit ==
    /\ HarnessIdle
    /\ hin \in {[kind |-> "path", script |-> sc, cwd |-> d] :
                   sc \in PathScripts, d \in PathDirs}
    /\ hout = [stage |-> "start", path |-> <<>>]

\* DaylightSettings()
PathCall ==
    /\ hout.stage = "start"
    /\ hout' = [stage |-> "returned",
                path  |-> GetSettingsFilePath(hin.script, hin.cwd)]
    /\ UNCHANGED <<dialogVars, vin, vout, hin>>

PathNext == PathCall

PathSpec == PathInit /\ [][PathNext]_vars

(* The older dialog of script.py: its _load_settings on its own, over the  *)
(* files and level lists of the dialog.  pyRevit binds every named control, *)
(* and the dialog has no execution mode and no write_results controls.     *)

\* the level part of script.py's _load_settings: a stored elevation selects
\* the first level within the tolerance and nothing otherwise; only an
\* absent or null elevation selects the first level
ScriptSelectLevel(r, level_elevation) ==
    IF level_elevation.k = "None"
    THEN Ok(WithSelectedIndex(r.form, 0))
    ELSE IF r.form.items = <<>> THEN r
    ELSE IF ~Floatable(level_elevation) THEN Raise(r)
    ELSE IF FirstMatch(r.form.items, FloatOf(level_elevation)) # 0
    THEN Ok([r.form EXCEPT !.selIdx =
                FirstMatch(r.form.items, FloatOf(level_elevation)) - 1])
    ELSE r

\* the try block of script.py's _load_settings
ScriptLoadBody(f, collectorOk) ==
    LET p == Ok([f EXCEPT !.items = levels])
        l == LoadSettingsFromFile
        s == ScriptSelectLevel(p, Get(l.data, "level_elevation", PyNone))
        is_multilayer    == Bool(Get(l.data, "multilayer_wall", PyBool(FALSE)))
        transmission_val == PyStrOf(Get(l.data, "transmission_value",
                                        PyInt(DefaultTransmission)))
    IN  IF ~collectorOk THEN Raise(Ok(f))
        ELSE IF file.st = "missing"
        THEN Ok([WithSelectedIndex(p.form, 0) EXCEPT
                    !.rbTrue = FALSE, !.rbFalse = TRUE,
                    !.text = Str(DefaultTransmission)])
        ELSE IF l.raised \/ ~l.isdict THEN Raise(p)
        ELSE IF s.raised THEN s
        ELSE Ok([s.form EXCEPT !.rbTrue = is_multilayer,
                               !.rbFalse = ~is_multilayer,
                               !.text = transmission_val])

\* script.py's _load_settings: the form it leaves and its message boxes
ScriptLoadSettings(f, collectorOk) ==
    LET b == ScriptLoadBody(f, collectorOk)
    IN  IF ~b.raised
        THEN [form |-> b.form, msgs |-> <<>>, outcome |-> "loaded"]
        ELSE [form |-> [WithSelectedIndex(b.form, 0) EXCEPT
                           !.rbFalse = TRUE, !.rbTrue = FALSE,
                           !.text = Str(DefaultTransmission)],
              msgs |-> <<Msg("Load Error", <<>>)>>,
              outcome |-> "load_error"]

ScriptInit ==
    /\ file \in InitFiles
    /\ xaml = TRUE
    /\ levels \in LevelLists
    /\ missing = {}
    /\ phase = "idle"
    /\ form = LayoutForm
    /\ collected = FALSE
    /\ last = "init"
    /\ outcome = "none"
    /\ msgs = <<>>
    /\ env = "none"
    /\ steps = <<>>
    /\ vin = <<>>
    /\ vout = NotCalled
    /\ hin \in {[kind |-> "script", collectorOk |-> b] : b \in BOOLEAN}
    /\ hout = [stage |-> "start", form |-> LayoutForm, msgs |-> <<>>,
               outcome |-> "none"]

\* script.py's SettingsWindow(xaml_source)
ScriptOpen ==
    /\ hout.stage = "start"
    /\ LET r == ScriptLoadSettings(LayoutForm, hin.collectorOk)
       IN  hout' = [stage |-> "opened", form |-> r.form, msgs |-> r.msgs,
                    outcome |-> r.outcome]
    /\ UNCHANGED <<dialogVars, vin, vout, hin>>

ScriptNext == ScriptOpen

ScriptSpec == ScriptInit /\ [][ScriptNext]_vars

----------------------------------------------------------------------------
(* find_child_by_name over object graphs *)

\* what stands for a call that does not return: the recursion goes on until
\* the stack is used up (RecursionError, or the end of the process)
NoReturn == 0 - 1

\* what an object of a graph holds: nothing, or one of its properties
\* holding one object, in a collection or as the object itself
GraphLinks ==
    {[linked |-> FALSE, prop |-> "Children", single |-> FALSE, to |-> 1]}
    \cup {[linked |-> TRUE, prop |-> a.prop, single |-> a.single, to |-> m] :
            a \in Attachments, m \in 1..MaxNodes}

\* the property table of the graph in which n holds link[n]
GraphContent(link) ==
    [n \in 1..MaxNodes |->
        [p \in Props |->
            IF ~link[n].linked \/ link[n].prop # p
            THEN [kind |-> "absent", items |-> <<>>]
            ELSE [kind  |-> IF link[n].single THEN "element"
                            ELSE "collection",
                  items |-> <<link[n].to>>]]]

\* n is one of the objects of the sequence s
OnStack(s, n) == \E i \in 1..Len(s) : s[i] = n

RECURSIVE FindOnStack(_, _, _, _)
RECURSIVE SearchPropertiesOnStack(_, _, _, _, _)
RECURSIVE SearchItemsOnStack(_, _, _, _, _)

\* the for loop of _search_in_container from the i-th item on, below the
\* calls of stack; a call that does not return ends the loop
SearchItemsOnStack(t, stack, items, name, i) ==
    IF i > Len(items) THEN 0
    ELSE LET result == FindOnStack(t, stack, items[i], name)
         IN  IF result # 0 THEN result
             ELSE SearchItemsOnStack(t, stack, items, name, i + 1)

\* WpfControlFinder._search_in_container below the calls of stack
SearchInContainerOnStack(t, stack, container, name) ==
    IF container.kind = "collection"
    THEN SearchItemsOnStack(t, stack, container.items, name, 1)
    ELSE FindOnStack(t, stack, container.items[1], name)

\* the for loop of find_child_by_name from the k-th property on, below the
\* calls of stack
SearchPropertiesOnStack(t, stack, parent, name, k) ==
    IF k > Len(SearchProperties) THEN 0
    ELSE LET container == t.content[parent][SearchProperties[k]]
         IN  IF \/ container.kind \in {"absent", "None"}
                \/ container.kind = "element" /\ container.items[1] = parent
             THEN SearchPropertiesOnStack(t, stack, parent, name, k + 1)
             ELSE LET result ==
                          SearchInContainerOnStack(t, stack, container, name)
                  IN  IF result # 0 THEN result
                      ELSE SearchPropertiesOnStack(t, stack, parent, name,
                                                   k + 1)

\* WpfControlFinder.find_child_by_name with the objects of the calls it is
\* nested in.  The function reads nothing but its arguments and the graph,
\* so a call for an object whose own call is still open repeats that call
\* and does not return.
FindOnStack(t, stack, parent, name) ==
    IF OnStack(stack, parent) THEN NoReturn
    ELSE IF t.names[parent] # NoName /\ t.names[parent] = name
    THEN parent
    ELSE SearchPropertiesOnStack(t, Append(stack, parent), parent, name, 1)

GraphInit ==
    /\ file = [st |-> "missing", obj |-> NoObj, extra |-> {}]
    /\ xaml = TRUE
    /\ levels = <<>>
    /\ missing = {}
    /\ phase = "idle"
    /\ form = LayoutForm
    /\ collected = FALSE
    /\ last = "init"
    /\ outcome = "none"
    /\ msgs = <<>>
    /\ env = "none"
    /\ steps = <<>>
    /\ vin = <<>>
    /\ vout = NotCalled
    /\ \E link \in [1..MaxNodes -> GraphLinks],
          nm \in [1..MaxNodes -> NodeNames] :
              hin = [kind    |-> "graph",
                     names   |-> nm,
                     content |-> GraphContent(link),
                     start   |-> 1]
    /\ hout = [stage |-> "start", result |-> 0]

\* find_child_by_name(start, 'SaveButton') on a graph
GraphCall ==
    /\ hout.stage = "start"
    /\ hout' = [stage  |-> "called",
                result |-> FindOnStack(hin, <<>>, hin.start, TargetName)]
    /\ UNCHANGED finderFrame

GraphNext == GraphCall

GraphSpec == GraphInit /\ [][GraphNext]_vars

----------------------------------------------------------------------------
(* Properties *)

\* the dict _load_settings hands to _apply_settings_to_ui
LoadedData ==
    IF file.st = "missing" THEN DefaultSettings ELSE LoadSettingsFromFile.data

\* the level_elevation _apply_settings_to_ui reads from it
LoadedElevation == Get(LoadedData, "level_elevation", PyNone)

\* C1: whatever the file held before and whatever was opened, edited and
\* clicked, a settings file written by save_button_click holds an integer
\* transmission_value between 0 and 100.  A file is one written by a save
\* right after a successful save, and whenever it is none of the files the
\* model starts from.
C1_SavedTransmissionInRange ==
    (file.st = "object" /\ (outcome = "saved" \/ file \notin InitFiles))
        => /\ file.obj.transmission_value.k = "number"
           /\ 0 <= file.obj.transmission_value.n
           /\ file.obj.transmission_value.n <= 100

\* a save went through for the text " 42 " and wrote 42
C1_Witness ==
    /\ outcome = "saved"
    /\ form.text = <<" ", "4", "2", " ">>
    /\ file.obj.transmission_value = JNumber(42)

\* C2: for every integer t of 0..100, _validate_inputs on the decimal
\* string of t returns True and sets ui_data['transmission_value'] to t,
\* without a message.
C2_ValidateAcceptsRange ==
    \A t \in 0..100 :
        (vout.called /\ vin = Str(t))
            => /\ vout.ok
               /\ vout.transmission_value = PyInt(t)
               /\ vout.msgs = <<>>

\* _validate_inputs has accepted "100"
C2_Witness ==
    /\ vout.called
    /\ vin = <<"1", "0", "0">>
    /\ vout.ok
    /\ vout.transmission_value = PyInt(100)

\* C3: for every text that int() does not read as an integer, or reads as
\* an integer outside 0..100, _validate_inputs returns False, sets no
\* transmission_value and shows exactly one 'Invalid Input' message, which
\* quotes the text as it was entered.
C3_ValidateRejects ==
    (vout.called /\ (~ParseInt(vin).ok \/ ParseInt(vin).v < 0
                                        \/ ParseInt(vin).v > 100))
        => /\ ~vout.ok
           /\ vout.transmission_value = PyAbsent
           /\ vout.msgs = <<Msg("Invalid Input", vin)>>

\* _validate_inputs has rejected " a", a text with a blank, and "101"
C3_Witness ==
    /\ vout.called
    /\ ~vout.ok
    /\ vin \in {<<" ", "a">>, <<"1", "0", "1">>}
    /\ Len(vout.msgs) = 1

\* C4: a save click rejected for its transmission text leaves the settings
\* file as it was, does not close the dialog and leaves every form field as
\* it was: the dialog is editing again, nothing lost.
C4_RejectedInputKeepsState ==
    [][(last' = "save" /\ outcome' = "invalid_input")
          => /\ file' = file
             /\ phase' = "editing"
             /\ form' = form
             /\ levels' = levels
             /\ collected' = collected]_vars

\* a click was rejected for the text "150"
C4_Witness ==
    /\ last = "save"
    /\ outcome = "invalid_input"
    /\ form.text = <<"1", "5", "0">>
    /\ phase = "editing"

\* C5: a save click while no level is selected shows one 'Missing Level'
\* message and ends there: the dialog stays open and the settings file is
\* not written.
C5_MissingLevelAborts ==
    [][(last' = "save" /\ form.selIdx = -1)
          => /\ outcome' = "missing_level"
             /\ msgs' = <<Msg("Missing Level", <<>>)>>
             /\ phase' = "editing"
             /\ file' = file]_vars

\* a click was made with no level selected, over a text that is invalid too
C5_Witness ==
    /\ last = "save"
    /\ form.selIdx = -1
    /\ outcome = "missing_level"
    /\ ~ValidateInputs(form.text).ok


\* the level at e / Scale feet lies within 0.001 mm of n millimetres:
\* |3 e / 1250 - n| < 0.001, that is |3 e - 1250 n| < 1.25
WithinMm(e, n) == Abs(3 * e - 1250 * n) < 2

\* the first level whose elevation in millimetres is the stored number, 0
\* when there is none
FirstMatchMm(lv, n) ==
    IF \E i \in 1..Len(lv) : WithinMm(lv[i], n)
    THEN CHOOSE i \in 1..Len(lv) :
            /\ WithinMm(lv[i], n)
            /\ \A j \in 1..(i - 1) : ~WithinMm(lv[j], n)
    ELSE 0

\* C6: on open, the level selected is the one whose elevation in
\* millimetres is within 0.001 of the stored level_elevation, and the first
\* level when there is none: with levels at 0, 3000 and 6000 mm a stored
\* 3000 selects the 3000 mm level and a stored 3050 the level at 0.
C6_SelectsStoredLevelByMm ==
    (/\ last = "open"
     /\ outcome = "loaded"
     /\ levels # <<>>
     /\ LoadedElevation.k = "int")
        => form.selIdx =
              IF FirstMatchMm(levels, LoadedElevation.n) # 0
              THEN FirstMatchMm(levels, LoadedElevation.n) - 1
              ELSE 0

\* C7: for a level list that is not empty, a loaded level_elevation that is
\* absent or null, or a number no Level.Elevation is within the tolerance
\* of, makes _select_level_by_elevation select the first level.
C7_NoMatchSelectsFirst ==
    (/\ last = "open"
     /\ outcome = "loaded"
     /\ levels # <<>>
     /\ \/ LoadedElevation.k = "None"
        \/ /\ Floatable(LoadedElevation)
           /\ \A i \in 1..Len(levels) :
                 Abs(levels[i] - FloatOf(LoadedElevation)) >= Tolerance)
        => form.selIdx = 0

\* a stored 3050 matched none of the three levels and the first is selected
C7_Witness ==
    /\ last = "open"
    /\ outcome = "loaded"
    /\ Len(levels) = 3
    /\ LoadedElevation = PyInt(3050)
    /\ form.selIdx = 0

\* the form shows the default record: multilayer off, "70", "web", write
\* results on, and the first level if there is one
ShowsDefaults(f) ==
    /\ f.rbTrue = FALSE
    /\ f.rbFalse = TRUE
    /\ f.text = <<"7", "0">>
    /\ f.execIdx = 0
    /\ f.wrYes = TRUE
    /\ f.wrNo = FALSE
    /\ f.selIdx = IF f.items = <<>> THEN -1 ELSE 0

C9_LoadErrorShowsDefaults ==
    (/\ last = "open"
     /\ missing = {}
     /\ file.st # "missing"
     /\ outcome = "load_error")
        => /\ msgs = <<Msg("Load Error", <<>>)>>
           /\ ShowsDefaults(form)

\* C10: _load_settings never raises to the constructor, whatever the file
\* holds, whether the level collector fails and whichever controls were
\* not found: every open ends in the editing state.
C10_LoadNeverRaises ==
    last = "open" => (phase = "editing" /\ outcome # "raised")

\* C11: when makedirs, codecs.open or json.dump fails during a submit,
\* _save_settings_to_file returns False and does not raise (the handler ends
\* as a failed save, not in its except clause), a 'Save Error' box that
\* quotes the exception is shown, and the dialog stays open with the form
\* as it was.
C11_WriteFailureReported ==
    [][(last' = "save" /\ env' \in {"mkdir_fail", "open_fail", "write_fail"})
          => /\ outcome' = "save_failed"
             /\ \E i \in 1..Len(msgs') :
                  msgs'[i] = [title |-> "Save Error", arg |-> <<env'>>]
             /\ phase' = "editing"
             /\ form' = form
             /\ collected' = collected]_vars

\* a submit whose makedirs failed
C11_Witness ==
    /\ last = "save"
    /\ env = "mkdir_fail"
    /\ outcome = "save_failed"
    /\ phase = "editing"

\* C12: save_button_click never lets an exception out: a submit that met a
\* control that was not found, a text int() refuses, a unit conversion that
\* raised or a write that failed ends with at least one message box, and
\* the dialog is still open with the form as it was.
C12_SubmitNeverRaises ==
    [][last' = "save"
          => /\ outcome' # "raised"
             /\ phase' # "raised"
             /\ outcome' \in {"exception", "invalid_input", "save_failed"}
                  => /\ Len(msgs') >= 1
                     /\ phase' = "editing"
                     /\ form' = form]_vars

\* a submit whose unit conversion raised
C12_Witness ==
    /\ last = "save"
    /\ env = "convert_fail"
    /\ outcome = "exception"
    /\ msgs = <<[title |-> "Save Error", arg |-> <<"convert_fail">>]>>
    /\ phase = "editing"

\* a record of the five keys with boolean flags, an integer transmission
\* in 0..100, an integer level_elevation and a mode of "web" or "local"
WellFormedRecord(r) ==
    /\ DOMAIN r = {"multilayer_wall", "transmission_value", "level_elevation",
                   "execution_mode", "write_results"}
    /\ r.multilayer_wall.k = "bool"
    /\ r.write_results.k = "bool"
    /\ r.transmission_value.k = "int"
    /\ 0 <= r.transmission_value.n /\ r.transmission_value.n <= 100
    /\ r.level_elevation.k = "int"
    /\ r.execution_mode.k = "str"
    /\ r.execution_mode.s \in {<<"w", "e", "b">>, <<"l", "o", "c", "a", "l">>}

\* C13: a well-formed record written as _save_settings_to_file writes it
\* and read as _load_settings_from_file reads it comes back equal: the read
\* does not raise, yields a dict, and every key holds the value and the
\* type that was written.
C13_RoundTrip ==
    (/\ hin.kind = "form"
     /\ hout.stage \in {"loaded", "reopened", "recollected"}
     /\ WellFormedRecord(hout.settings))
        => /\ ~hout.data.raised
           /\ hout.data.isdict
           /\ hout.data.data = hout.settings

\* a record with a negative elevation, the mode "local" and the
\* transmission 100, written and read back
C13_Witness ==
    /\ hin.kind = "form"
    /\ hout.stage = "loaded"
    /\ WellFormedRecord(hout.settings)
    /\ hout.settings.level_elevation.n < 0
    /\ hout.settings.execution_mode.s = <<"l", "o", "c", "a", "l">>
    /\ hout.settings.transmission_value.n = 100
    /\ hout.settings.multilayer_wall.b
    /\ ~hout.settings.write_results.b

\* the integer n is a nearest integer to the millimetres of the elevation e
\* (e / Scale feet are 3 * e / 1250 mm)
NearestMm(e, n) == 2 * Abs(3 * e - 1250 * n) <= 1250

\* C14: _prepare_settings_data returns a record of exactly the five keys;
\* multilayer_wall, transmission_value, execution_mode and write_results
\* are ui_data's is_multilayer, transmission_value, exec_mode and
\* write_results, and level_elevation is the integer nearest to the
\* selected level's elevation in millimetres.
C14_PreparedRecord ==
    hout.settings # Nothing
        => /\ DOMAIN hout.settings =
                {"multilayer_wall", "transmission_value", "level_elevation",
                 "execution_mode", "write_results"}
           /\ hout.settings.multilayer_wall = PyBool(hout.ui.is_multilayer)
           /\ hout.settings.transmission_value =
                  PyInt(ParseInt(hout.ui.transmission_str).v)
           /\ hout.settings.execution_mode = PyStr(hout.ui.exec_mode)
           /\ hout.settings.write_results = PyBool(hout.ui.write_results)
           /\ hout.settings.level_elevation.k = "int"
           /\ NearestMm(hout.ui.selected_level, hout.settings.level_elevation.n)

\* a level at 0.2 ft, 60.96 mm, prepared as 61
C14_Witness ==
    /\ hout.stage = "prepared"
    /\ hout.ui.selected_level = 2 * (Scale \div 10)
    /\ hout.settings.level_elevation = PyInt(61)
    /\ hout.settings.transmission_value = PyInt(42)

\* C15: the execution mode is a binary choice.  Collecting reads index 1 as
\* "local" and every other index, no selection included, as "web"; a file
\* written by a submit holds "web" or "local"; populating sets index 1 for
\* a stored "local" and index 0 for anything else; and the mode collected
\* from the reopened dialog is the mode that was saved.
C15_ExecutionModeBinary ==
    /\ (hin.kind = "form" /\ hout.ui # Nothing)
          => hout.ui.exec_mode = IF hin.form.execIdx = 1
                                 THEN <<"l", "o", "c", "a", "l">>
                                 ELSE <<"w", "e", "b">>
    /\ (hin.kind = "form" /\ file.st = "object")
          => file.obj.execution_mode \in
                {JString(<<"w", "e", "b">>), JString(<<"l", "o", "c", "a", "l">>)}
    /\ hout.reopened # Nothing
          => hout.reopened.form.execIdx =
                IF file.obj.execution_mode = JString(<<"l", "o", "c", "a", "l">>)
                THEN 1 ELSE 0
    /\ (hin.kind = "form" /\ hout.ui2 # Nothing)
          => hout.ui2.exec_mode = hout.ui.exec_mode

\* "local" picked, saved, and collected again from the reopened dialog
C15_Witness ==
    /\ hin.kind = "form"
    /\ hin.form.execIdx = 1
    /\ hout.stage = "recollected"
    /\ file.obj.execution_mode = JString(<<"l", "o", "c", "a", "l">>)
    /\ hout.reopened.form.execIdx = 1
    /\ hout.ui2.exec_mode = <<"l", "o", "c", "a", "l">>

\* C16: a save click closes the dialog only when collecting, validating and
\* writing all succeeded in that same click: the close follows a completed
\* write of that click, every other click leaves the dialog open and
\* editing, and while no dialog is being edited the file is not written.
C16_ClosesOnlyAfterWrite ==
    [][/\ (last' = "save" /\ phase' = "closed")
            => /\ phase = "editing"
               /\ outcome' = "saved"
               /\ env' = "ok"
               /\ msgs' = <<>>
               /\ file'.st = "object"
       /\ (last' = "save" /\ outcome' # "saved") => phase' = "editing"
       /\ phase # "editing" => file' = file]_vars

\* a dialog closed by a save whose write succeeded
C16_Witness ==
    /\ last = "save"
    /\ phase = "closed"
    /\ outcome = "saved"
    /\ env = "ok"

\* C17: after a successful submit the settings file holds exactly the record
\* of that submit's form values: the five members as the form shows them,
\* the level's elevation as the nearest whole millimetre, and nothing of
\* what the file held before, members outside the five included.
C17_FileHoldsSubmittedRecord ==
    [][(last' = "save" /\ outcome' = "saved")
          => /\ file'.st = "object"
             /\ file'.extra = {}
             /\ file'.obj.multilayer_wall =
                    (IF form.rbTrue THEN JTrue ELSE JFalse)
             /\ file'.obj.transmission_value = JNumber(ParseInt(form.text).v)
             /\ file'.obj.level_elevation.k = "number"
             /\ NearestMm(form.items[form.selIdx + 1],
                          file'.obj.level_elevation.n)
             /\ file'.obj.execution_mode =
                    JString(IF form.execIdx = 1
                            THEN <<"l", "o", "c", "a", "l">>
                            ELSE <<"w", "e", "b">>)
             /\ file'.obj.write_results =
                    (IF form.wrYes THEN JTrue ELSE JFalse)]_vars

\* a submit of 100, multilayer, "local", no results, at the 6000 mm level
C17_Witness ==
    /\ last = "save"
    /\ outcome = "saved"
    /\ file = [st    |-> "object",
               obj   |-> Obj(JTrue, JNumber(100), JNumber(6000),
                             JString(<<"l", "o", "c", "a", "l">>), JFalse),
               extra |-> {}]

\* C18: SettingsApplication.run constructs a SettingsWindow and shows it as
\* a modal dialog if and only if the layout file exists; when it does not,
\* one 'UI File Error' message is shown and no window is constructed.
C18_RunShowsDialogIffLayout ==
    last \in {"open", "run"}
        => /\ (phase = "editing") <=> xaml
           /\ ~xaml => /\ outcome = "no_xaml"
                       /\ Len(msgs) = 1
                       /\ msgs[1].title = "UI File Error"
                       /\ steps = <<>>

ReachableFrom(t, s) ==
    LET Step(S) == S \cup {m \in 1..MaxNodes :
                            \E n \in S, p \in {"Children", "Content", "Child",
                                               "Items"}, i \in 1..MaxNodes :
                               /\ i <= Len(t.content[n][p].items)
                               /\ t.content[n][p].items[i] = m}
        Closure[k \in 0..MaxNodes] ==
            IF k = 0 THEN {s} ELSE Step(Closure[k - 1])
    IN  Closure[MaxNodes]

\* C20: find_child_by_name(parent, name) returns parent when parent.Name is
\* name; what it returns otherwise is an object named name that is
\* reachable from parent through Children, Content, Child and Items (held
\* in a collection or as one object that cannot be iterated); and it
\* returns None exactly when no reachable object has that name.
C20_FindsReachableByName ==
    hout.stage = "returned"
        => /\ hin.names[hin.start] = "SaveButton" => hout.result = hin.start
           /\ hout.result # 0
                => /\ hout.result \in ReachableFrom(hin, hin.start)
                   /\ hin.names[hout.result] = "SaveButton"
           /\ hout.result = 0
                <=> ~\E n \in ReachableFrom(hin, hin.start) :
                        hin.names[n] = "SaveButton"

\* the control found two levels down, below an Items collection and a
\* Content that holds one object
C20_Witness ==
    /\ hout.stage = "returned"
    /\ hin.start = 1
    /\ hout.result = 3
    /\ hin.content[1]["Items"].kind = "collection"
    /\ hin.content[2]["Content"] = [kind |-> "element", items |-> <<3>>]

\* d is the directory that holds c; the root holds itself
HoldsPath(d, c) ==
    \/ c = <<>> /\ d = <<>>
    \/ c # <<>> /\ Len(d) = Len(c) - 1
                /\ \A i \in 1..Len(d) : d[i] = c[i]

\* the leading parts of a path
Prefixes(p) == {SubSeq(p, 1, n) : n \in 0..Len(p)}

\* C21: the settings file is settings_daylight.json in the directory one
\* level above the directory that holds the script; when __file__ is not
\* defined it is that name one level above the working directory.
C21_SettingsPath ==
    hout.stage = "returned"
        => \E here \in Prefixes(hin.cwd)
                       \cup Prefixes(Abspath(hin.script, hin.cwd)) :
             /\ IF hin.script.defined
                THEN HoldsPath(here, Abspath(hin.script, hin.cwd))
                ELSE here = hin.cwd
             /\ \E up \in Prefixes(here) :
                  /\ HoldsPath(up, here)
                  /\ HoldsPath(up, hout.path)
                  /\ hout.path[Len(hout.path)] = "settings_daylight.json"

\* the script given relative to the working directory /a/b as ../b/Settings.py
C21_Witness ==
    /\ hout.stage = "returned"
    /\ hin.cwd = <<"a", "b">>
    /\ hin.script = [defined |-> TRUE, absolute |-> FALSE,
                     parts |-> <<"..", "b", "Settings.py">>]
    /\ hout.path = <<"a", "settings_daylight.json">>

\* C22: in Settings.py a save click looks at the level selection before it
\* validates the transmission text: with no level selected and a text that
\* _validate_inputs would refuse, the click ends with the 'Missing Level'
\* message alone; no 'Invalid Input' message is shown, nothing is written
\* and the dialog stays open.
C22_LevelCheckedBeforeTransmission ==
    [][(/\ last' = "save"
        /\ "ComboBoxLevels" \notin missing
        /\ form.selIdx = -1
        /\ ~(ParseInt(form.text).ok /\ 0 <= ParseInt(form.text).v
                                    /\ ParseInt(form.text).v <= 100))
          => /\ outcome' = "missing_level"
             /\ msgs' = <<[title |-> "Missing Level", arg |-> <<>>]>>
             /\ \A i \in 1..Len(msgs') : msgs'[i].title # "Invalid Input"
             /\ file' = file
             /\ phase' = "editing"]_vars

\* a click with no level selected and the text "abc"
C22_Witness ==
    /\ last = "save"
    /\ "ComboBoxLevels" \notin missing
    /\ form.selIdx = -1
    /\ form.text = <<"a", "b", "c">>
    /\ outcome = "missing_level"
    /\ msgs = <<[title |-> "Missing Level", arg |-> <<>>]>>

\* C23: in script.py's _load_settings, when the settings file holds a
\* level_elevation that is a number and no level lies within the tolerance
\* of it, the first level is selected, as it is when level_elevation is
\* absent or null or the file is missing.
C23_ScriptNoMatchSelectsFirst ==
    (/\ hout.stage = "opened"
     /\ hin.collectorOk
     /\ levels # <<>>
     /\ \/ file.st = "missing"
        \/ /\ file.st = "object"
           /\ file.obj.level_elevation.k \in {"absent", "null"}
        \/ /\ file.st = "object"
           /\ file.obj.level_elevation.k = "number"
           /\ \A i \in 1..Len(levels) :
                Abs(levels[i] - Scale * file.obj.level_elevation.n)
                    >= Scale \div 1000)
        => hout.form.selIdx = 0

\* C24: the level selection survives a save and a reopen: when a submit
\* with the level L selected has succeeded and the dialog is opened again
\* over the same level list, L is selected again.
C24_LevelSurvivesReopen ==
    [][(/\ last = "save"
        /\ outcome = "saved"
        /\ missing = {}
        /\ last' = "open"
        /\ collected')
          => /\ form'.items = form.items
             /\ form'.selIdx = form.selIdx]_vars


\* C25: every submit that is aborted (no level selected, transmission text
\* refused, settings directory not created, file not written, or an
\* unexpected exception) has shown exactly one message box.
C25_OneBoxPerAbortedSubmit ==
    (last = "save" /\ outcome # "saved") => Len(msgs) = 1


\* the members an object holds have the types of the settings record
WellTypedObject(o) ==
    /\ o.multilayer_wall.k \in {"absent", "true", "false"}
    /\ o.transmission_value.k \in {"absent", "number"}
    /\ o.level_elevation.k \in {"absent", "null", "number"}
    /\ \/ o.execution_mode.k = "absent"
       \/ o.execution_mode \in {JString(WEB_MODE), JString(LOCAL_MODE)}
    /\ o.write_results.k \in {"absent", "true", "false"}

\* the file is an object that lacks at least one of the five keys
PartialFile ==
    /\ file.st = "object"
    /\ \E k \in Keys : file.obj[k].k = "absent"

\* the four controls that do not depend on the levels show the members of
\* the object o, and the defaults for the members it lacks
ShowsMembers(f, o) ==
    /\ f.rbTrue = (o.multilayer_wall.k = "true")
    /\ f.rbFalse = (o.multilayer_wall.k # "true")
    /\ f.text = IF o.transmission_value.k = "absent"
                THEN Str(DefaultTransmission)
                ELSE Str(o.transmission_value.n)
    /\ f.execIdx = IF o.execution_mode = JString(LOCAL_MODE) THEN 1 ELSE 0
    /\ f.wrYes = (o.write_results.k # "false")
    /\ f.wrNo = (o.write_results.k = "false")

\* the level selector shows the stored elevation (millimetres) when a level
\* lies there, and the first level, if any, when the elevation is absent,
\* null or no level's
ShowsLevel(f, le) ==
    IF le.k = "number" /\ FirstMatchMm(f.items, le.n) # 0
    THEN f.selIdx = FirstMatchMm(f.items, le.n) - 1
    ELSE f.selIdx = IF f.items = <<>> THEN -1 ELSE 0

\* C26: when the settings file is an object that lacks some of the five
\* keys (and the members it holds have the record's types), opening the
\* dialog signals no load error, every missing key shows its default
\* (multilayer off, "70", no stored level, "web", write results on) and
\* every member present shows on the form.
C26_PartialFileDefaultsPerKey ==
    (/\ last = "open"
     /\ collected
     /\ missing = {}
     /\ PartialFile
     /\ WellTypedObject(file.obj))
        => /\ outcome = "loaded"
           /\ msgs = <<>>
           /\ ShowsMembers(form, file.obj)
           /\ form.items = levels
           /\ ShowsLevel(form, file.obj.level_elevation)


\* the objects of the tree below n, n first, in depth-first order with the
\* properties in the order Children, Content, Child, Items
RECURSIVE Preorder(_, _)
RECURSIVE PreorderOfItems(_, _, _)
RECURSIVE PreorderOfProperties(_, _, _)

PreorderOfItems(t, items, i) ==
    IF i > Len(items) THEN <<>>
    ELSE Preorder(t, items[i]) \o PreorderOfItems(t, items, i + 1)

PreorderOfProperties(t, n, k) ==
    IF k > 4 THEN <<>>
    ELSE PreorderOfItems(
             t, t.content[n][<<"Children", "Content", "Child", "Items">>[k]].items, 1)
         \o PreorderOfProperties(t, n, k + 1)

Preorder(t, n) == <<n>> \o PreorderOfProperties(t, n, 1)

\* the first object of the sequence s that carries the name, 0 when none does
FirstNamed(t, s, name) ==
    IF \E i \in 1..Len(s) : t.names[s[i]] = name
    THEN s[CHOOSE i \in 1..Len(s) :
              /\ t.names[s[i]] = name
              /\ \A j \in 1..(i - 1) : t.names[s[j]] # name]
    ELSE 0

\* the second half of C27, on trees: find_child_by_name returns the first
\* object of that name in depth-first order, None when there is none
DepthFirstOnTrees ==
    hout.stage = "returned"
        => hout.result = FirstNamed(hin, Preorder(hin, hin.start), TargetName)

\* a tree in which the first match in depth-first order is not the match
\* with the lowest number
DepthFirstOnTrees_Reached ==
    /\ hout.stage = "returned"
    /\ hout.result # 0
    /\ \E n \in 1..MaxNodes :
          /\ n < hout.result
          /\ hin.names[n] = TargetName
          /\ OnStack(Preorder(hin, hin.start), n)

\* C27: find_child_by_name returns on every finite graph of objects linked
\* through Children, Content, Child and Items, also when an object is
\* reached from itself in more than one step.
C27_FinderReturnsOnGraphs ==
    hout.stage = "called" => hout.result # NoReturn

====
